---- MODULE Spec2Model ----
(***************************************************************************)
(* The geometric sequence scripts of src/fix: sequences.py (the strict     *)
(* variant) and robust-sequences.py (the robust variant, the same flow     *)
(* wrapped in exception handlers).  Both variants are modelled side by     *)
(* side, as two processes indexed by their variant that run in the same    *)
(* process environment, so that their runs can be compared.                *)
(*                                                                         *)
(* Spec    is a run of the scripts (python <file>): main() from its first  *)
(*         statement to the end of the process; every statement that can   *)
(*         raise (environment access, print, the term computation) may     *)
(*         raise.                                                          *)
(* GenSpec is a direct call generate_geometric_sequence(a, r, n) with the  *)
(*         arguments drawn from bounded sets of ints, floats and a         *)
(*         non-numeric ratio; a term raises exactly when Python's          *)
(*         arithmetic raises.                                              *)
(***************************************************************************)
EXTENDS Integers, Sequences, FiniteSets, TLC

\* ------------------------------------------------------------ bounds
\* Largest finite magnitude of a float (sys.float_info.max, scaled down).
FloatMax == 8
\* Largest term count of a direct call.
MaxN == 3
\* Largest magnitude of an argument a or r of a direct call.
MaxArg == 3

\* ------------------------------------------------------------ variants
Variants == {"strict", "robust"}

\* ------------------------------------------------------------ text
\* A text is the non-empty sequence of the lines it holds: "a\nb" is
\* <<"a", "b">>, a text without a line break is <<s>>.
Line(s) == <<s>>

\* String concatenation of two texts (an f-string's pieces).
Concat(s, t) ==
    SubSeq(s, 1, Len(s) - 1) \o <<s[Len(s)] \o t[1]>> \o Tail(t)

\* print(t): writes t and a line break, so every line of t becomes a line
\* of the stream.
PyPrint(stream, t) == stream \o t

\* ------------------------------------------------------------ numbers
\* A Python value: an int (exact, unbounded), a float (finite of magnitude
\* at most FloatMax, or an infinity), or a str (the non-numeric operand).
PyInt(k) == [t |-> "int", inf |-> 0, v |-> k]
PyFloat(k) == [t |-> "float", inf |-> 0, v |-> k]
PyInf(sign) == [t |-> "float", inf |-> sign, v |-> 0]
PyStr == [t |-> "str", inf |-> 0, v |-> 0]
\* A local not yet bound.
Unbound == [t |-> "unbound", inf |-> 0, v |-> 0]

Abs(k) == IF k < 0 THEN -k ELSE k
Sign(k) == IF k < 0 THEN -1 ELSE 1

RECURSIVE IntPow(_, _)
IntPow(b, e) == IF e = 0 THEN 1 ELSE b * IntPow(b, e - 1)

\* The outcome of an expression: a value, or a raised exception.
Value(x) == [ok |-> TRUE, val |-> x, exc |-> ""]
Raise(e) == [ok |-> FALSE, val |-> Unbound, exc |-> e]

\* r ** i for an int i >= 0: int ** int is exact, float ** int raises
\* OverflowError when the result is out of range, str ** int is a TypeError.
PyPow(r, i) ==
    CASE r.t = "int" -> Value(PyInt(IntPow(r.v, i)))
      [] r.t = "float" ->
           IF Abs(IntPow(r.v, i)) > FloatMax
           THEN Raise("OverflowError")
           ELSE Value(PyFloat(IntPow(r.v, i)))
      [] OTHER -> Raise("TypeError")

\* float(x) of a number, as the mixed product converts its int operand:
\* raises OverflowError for an int too large to convert.
ToFloat(x) ==
    IF x.t = "float" THEN Value(x)
    ELSE IF Abs(x.v) > FloatMax THEN Raise("OverflowError")
    ELSE Value(PyFloat(x.v))

\* a * p for numbers: int * int is exact; a float product out of range is
\* an infinity, not an exception.
PyMul(a, p) ==
    IF a.t = "int" /\ p.t = "int" THEN Value(PyInt(a.v * p.v))
    ELSE LET fa == ToFloat(a)
             fp == ToFloat(p)
         IN  IF ~fa.ok THEN fa
             ELSE IF ~fp.ok THEN fp
             ELSE IF Abs(fa.val.v * fp.val.v) > FloatMax
                  THEN Value(PyInf(Sign(fa.val.v * fp.val.v)))
                  ELSE Value(PyFloat(fa.val.v * fp.val.v))

\* term = a * (r ** i)
Term(a, r, i) ==
    LET p == PyPow(r, i)
    IN  IF p.ok THEN PyMul(a, p.val) ELSE p

\* repr(x) of a number, as print(sequence) and an f-string render it.
Repr(x) ==
    CASE x.t = "int" -> ToString(x.v)
      [] x.t = "float" /\ x.inf = 1 -> "inf"
      [] x.t = "float" /\ x.inf = -1 -> "-inf"
      [] x.t = "float" -> ToString(x.v) \o ".0"
      [] OTHER -> "?"

RECURSIVE JoinRepr(_)
JoinRepr(s) ==
    IF s = <<>> THEN ""
    ELSE IF Len(s) = 1 THEN Repr(s[1])
    ELSE Repr(s[1]) \o ", " \o JoinRepr(Tail(s))

\* str(sequence) of a list of numbers.
ListRepr(s) == "[" \o JoinRepr(s) \o "]"

\* ------------------------------------------------------------ constants
\* Default values of main(): first term, common ratio, number of terms.
DefaultA == 1
DefaultR == 2
DefaultN == 10
\* sys.exit(0), and the end of a script that ran to its last statement.
ExitSuccess == 0
\* sys.exit(2) of the robust variant's failure handler.
ExitFailure == 2
\* The interpreter's exit code for an exception that main() lets escape.
ExitUnhandled == 1

NoncePlaceholder == Line("NO_NONCE_PROVIDED")

\* ------------------------------------------------------------ state
VARIABLES
    entry,      \* "main": the script is run; "call": the generator is called
    env,        \* os.environ: a function from the names that are set
    pc,         \* pc[v]: the statement variant v is at
    nonce,      \* main's local nonce (<<>> while unbound)
    a, r, n,    \* the parameters: main's locals, the generator's arguments
    i,          \* the generator's loop index
    sequence,   \* the generator's local list
    result,     \* what the generator returned: main's local sequence
    exc,        \* str(e) of the exception an except clause has bound
    stdout,     \* the lines written to standard output
    stderr,     \* the lines written to standard error
    exit,       \* <<>> while the process runs, then <<its exit code>>
    envReads,   \* how many times os.environ.get was called
    faults      \* the statements at which an exception was raised, in order

vars == <<entry, env, pc, nonce, a, r, n, i, sequence, result, exc,
          stdout, stderr, exit, envReads, faults>>

\* Mutant of EnvironGet: the variable is never looked up.
EnvironGetIgnoresEnv(e, key, default) == default

\* os.environ.get(key, default)
EnvironGet(e, key, default) == IF key \in DOMAIN e THEN e[key] ELSE default

\* The environments of a run: TASK_NONCE unset, set to abc123, set to the
\* empty string, set to a value holding a line break.
NoEnv == [k \in {} |-> Line("")]
EnvWith(t) == [k \in {"TASK_NONCE"} |-> t]
Environments ==
    {NoEnv, EnvWith(Line("abc123")), EnvWith(Line("")), EnvWith(<<"ab", "c">>)}

\* The lines main() prints.
NonceText(x) == Concat(Line("NONCE: "), x)
TitleText == Line("Geometric Number Sequence Generator")
RuleText == Line("-----------------------------------")
ParamsText(x, y, z) ==
    Line("Sequence with a=" \o Repr(x) \o ", r=" \o Repr(y) \o ", n="
         \o Repr(z) \o ":")
SuccessText == <<"", "Execution successful!">>
ErrorText(e) == Line("ERROR: " \o e)
GenErrorText(e) == Line("Error generating sequence: " \o e)
\* What traceback.print_exc() and the interpreter's excepthook write.
TracebackText(e) == <<"Traceback (most recent call last):", e>>

\* What is the same at the start of a run and of a direct call.
Common ==
    /\ stdout = [v \in Variants |-> <<>>]
    /\ stderr = [v \in Variants |-> <<>>]
    /\ exit = [v \in Variants |-> <<>>]
    /\ envReads = [v \in Variants |-> 0]
    /\ faults = [v \in Variants |-> <<>>]
    /\ exc = [v \in Variants |-> ""]
    /\ nonce = [v \in Variants |-> <<>>]
    /\ i = [v \in Variants |-> 0]
    /\ sequence = [v \in Variants |-> <<>>]
    /\ result = [v \in Variants |-> <<>>]

\* A run of the script: nothing is bound yet.
Init ==
    /\ entry = "main"
    /\ env \in Environments
    /\ pc = [v \in Variants |-> "env_get"]
    /\ a = [v \in Variants |-> Unbound]
    /\ r = [v \in Variants |-> Unbound]
    /\ n = [v \in Variants |-> Unbound]
    /\ Common

\* ------------------------------------------------------------ steps
Goto(v, p) == pc' = [pc EXCEPT ![v] = p]
Out(v, t) == stdout' = [stdout EXCEPT ![v] = PyPrint(@, t)]
Err(v, t) == stderr' = [stderr EXCEPT ![v] = PyPrint(@, t)]
Faulted(v) == faults' = [faults EXCEPT ![v] = Append(@, pc[v])]

\* The statements of main()'s flow that can raise, of the robust variant's
\* failure handler, and of the robust generator's except clause.
FlowSites ==
    {"env_get", "print_nonce", "print_title", "print_rule", "print_params",
     "print_seq", "print_ok"}
HandlerSites == {"h_print_error", "h_traceback", "h_env_get", "h_print_nonce"}
GenHandlerSites == {"gen_h_print", "gen_h_traceback"}

\* An exception leaves main(): the interpreter writes the traceback to
\* standard error and the process ends with ExitUnhandled.
Crash(v, e) ==
    /\ Goto(v, "done")
    /\ Err(v, TracebackText(e))
    /\ exit' = [exit EXCEPT ![v] = <<ExitUnhandled>>]

\* An exception raised in main()'s flow: the strict variant lets it escape,
\* the robust variant binds it in `except Exception as e`.
RaiseInMain(v, e) ==
    IF v = "robust"
    THEN /\ Goto(v, "h_print_error")
         /\ exc' = [exc EXCEPT ![v] = e]
         /\ UNCHANGED <<stderr, exit>>
    ELSE /\ Crash(v, e)
         /\ UNCHANGED exc

\* An exception leaves generate_geometric_sequence: into main()'s flow, or
\* to the caller of a direct call.
RaiseFromGen(v, e) ==
    IF entry = "main"
    THEN RaiseInMain(v, e)
    ELSE /\ Goto(v, "raised")
         /\ exc' = [exc EXCEPT ![v] = e]
         /\ UNCHANGED <<stderr, exit>>

\* Mutant of RaiseInGen: the strict generator catches the exception too.
RaiseInGenCaught(v, e) ==
    /\ Goto(v, "gen_h_print")
    /\ exc' = [exc EXCEPT ![v] = e]
    /\ UNCHANGED <<stderr, exit>>

\* An exception raised by a term: the robust generator binds it in its
\* except clause, the strict generator lets it escape.
RaiseInGen(v, e) ==
    IF v = "robust"
    THEN /\ Goto(v, "gen_h_print")
         /\ exc' = [exc EXCEPT ![v] = e]
         /\ UNCHANGED <<stderr, exit>>
    ELSE RaiseFromGen(v, e)

\* generate_geometric_sequence returns x: to main()'s
\* `sequence = generate_geometric_sequence(a, r, n)`, or to the caller.
ReturnFromGen(v, x) ==
    /\ result' = [result EXCEPT ![v] = x]
    /\ Goto(v, IF entry = "main" THEN "print_params" ELSE "returned")

\* nonce = os.environ.get('TASK_NONCE', 'NO_NONCE_PROVIDED')
EnvGet(v) ==
    /\ pc[v] = "env_get"
    /\ nonce' = [nonce EXCEPT ![v] = EnvironGet(env, "TASK_NONCE", NoncePlaceholder)]
    /\ envReads' = [envReads EXCEPT ![v] = @ + 1]
    /\ Goto(v, "print_nonce")
    /\ UNCHANGED <<entry, env, a, r, n, i, sequence, result, exc, stdout,
                   stderr, exit, faults>>

\* A print of main()'s flow: writes t and goes on to statement p.
PrintStep(v, at, t, p) ==
    /\ pc[v] = at
    /\ Out(v, t)
    /\ Goto(v, p)
    /\ UNCHANGED <<entry, env, nonce, a, r, n, i, sequence, result, exc,
                   stderr, exit, envReads, faults>>

\* print(f"NONCE: {nonce}")
PrintNonce(v) == PrintStep(v, "print_nonce", NonceText(nonce[v]), "print_title")

\* print("Geometric Number Sequence Generator")
PrintTitle(v) == PrintStep(v, "print_title", TitleText, "print_rule")

\* print("-----------------------------------")
PrintRule(v) == PrintStep(v, "print_rule", RuleText, "set_defaults")

\* a = 1; r = 2; n = 10
SetDefaults(v) ==
    /\ pc[v] = "set_defaults"
    /\ a' = [a EXCEPT ![v] = PyInt(DefaultA)]
    /\ r' = [r EXCEPT ![v] = PyInt(DefaultR)]
    /\ n' = [n EXCEPT ![v] = PyInt(DefaultN)]
    /\ Goto(v, "call_gen")
    /\ UNCHANGED <<entry, env, nonce, i, sequence, result, exc, stdout,
                   stderr, exit, envReads, faults>>

\* Mutant of CallGen: the parameter line is printed before the call.
CallGenAfterParams(v) ==
    /\ pc[v] = "call_gen"
    /\ Out(v, ParamsText(a[v], r[v], n[v]))
    /\ sequence' = [sequence EXCEPT ![v] = <<>>]
    /\ i' = [i EXCEPT ![v] = 0]
    /\ Goto(v, "gen_loop")
    /\ UNCHANGED <<entry, env, nonce, a, r, n, result, exc, stderr, exit,
                   envReads, faults>>

\* sequence = generate_geometric_sequence(a, r, n): the call enters the
\* generator, whose `sequence = []` starts the list.
CallGen(v) ==
    /\ pc[v] = "call_gen"
    /\ sequence' = [sequence EXCEPT ![v] = <<>>]
    /\ i' = [i EXCEPT ![v] = 0]
    /\ Goto(v, "gen_loop")
    /\ UNCHANGED <<entry, env, nonce, a, r, n, result, exc, stdout, stderr,
                   exit, envReads, faults>>

\* Mutant of GenStep: the exponent is off by one.
GenStepOffByOne(v) ==
    /\ pc[v] = "gen_loop"
    /\ i[v] < n[v].v
    /\ Term(a[v], r[v], i[v]).ok
    /\ Term(a[v], r[v], i[v] + 1).ok
    /\ sequence' = [sequence EXCEPT ![v] = Append(@, Term(a[v], r[v], i[v] + 1).val)]
    /\ i' = [i EXCEPT ![v] = @ + 1]
    /\ UNCHANGED <<entry, env, pc, nonce, a, r, n, result, exc, stdout,
                   stderr, exit, envReads, faults>>

\* One iteration of `for i in range(n)`: term = a * (r ** i);
\* sequence.append(term).
GenStep(v) ==
    /\ pc[v] = "gen_loop"
    /\ i[v] < n[v].v
    /\ Term(a[v], r[v], i[v]).ok
    /\ sequence' = [sequence EXCEPT ![v] = Append(@, Term(a[v], r[v], i[v]).val)]
    /\ i' = [i EXCEPT ![v] = @ + 1]
    /\ UNCHANGED <<entry, env, pc, nonce, a, r, n, result, exc, stdout,
                   stderr, exit, envReads, faults>>

\* range(n) is exhausted: return sequence.
GenReturn(v) ==
    /\ pc[v] = "gen_loop"
    /\ i[v] >= n[v].v
    /\ ReturnFromGen(v, sequence[v])
    /\ UNCHANGED <<entry, env, nonce, a, r, n, i, sequence, exc, stdout,
                   stderr, exit, envReads, faults>>

\* The term of this iteration raises, as Python's arithmetic does.
GenArithmeticRaise(v) ==
    /\ pc[v] = "gen_loop"
    /\ i[v] < n[v].v
    /\ ~Term(a[v], r[v], i[v]).ok
    /\ RaiseInGen(v, Term(a[v], r[v], i[v]).exc)
    /\ Faulted(v)
    /\ UNCHANGED <<entry, env, nonce, a, r, n, i, sequence, result, stdout,
                   envReads>>

\* The robust generator's except clause:
\* print(f"Error generating sequence: {e}")
GenHandlerPrint(v) ==
    PrintStep(v, "gen_h_print", GenErrorText(exc[v]), "gen_h_traceback")

\* traceback.print_exc()
GenHandlerTraceback(v) ==
    /\ pc[v] = "gen_h_traceback"
    /\ Err(v, TracebackText(exc[v]))
    /\ Goto(v, "gen_h_return")
    /\ UNCHANGED <<entry, env, nonce, a, r, n, i, sequence, result, exc,
                   stdout, exit, envReads, faults>>

\* Mutant of GenHandlerReturn: the terms appended before the fault are
\* returned.
GenHandlerReturnPartial(v) ==
    /\ pc[v] = "gen_h_return"
    /\ ReturnFromGen(v, sequence[v])
    /\ UNCHANGED <<entry, env, nonce, a, r, n, i, sequence, exc, stdout,
                   stderr, exit, envReads, faults>>

\* return []
GenHandlerReturn(v) ==
    /\ pc[v] = "gen_h_return"
    /\ ReturnFromGen(v, <<>>)
    /\ UNCHANGED <<entry, env, nonce, a, r, n, i, sequence, exc, stdout,
                   stderr, exit, envReads, faults>>

\* print(f"Sequence with a={a}, r={r}, n={n}:")
PrintParams(v) ==
    PrintStep(v, "print_params", ParamsText(a[v], r[v], n[v]), "print_seq")

\* print(sequence)
PrintSeq(v) == PrintStep(v, "print_seq", Line(ListRepr(result[v])), "print_ok")

\* Mutant of PrintOk: the blank line is missing.
PrintOkNoBlank(v) ==
    PrintStep(v, "print_ok", Line("Execution successful!"), "end_main")

\* print("\nExecution successful!")
PrintOk(v) == PrintStep(v, "print_ok", SuccessText, "end_main")

\* The process ends with exit code c.
ExitWith(v, c) ==
    /\ exit' = [exit EXCEPT ![v] = <<c>>]
    /\ Goto(v, "done")
    /\ UNCHANGED <<entry, env, nonce, a, r, n, i, sequence, result, exc,
                   stdout, stderr, envReads, faults>>

\* Mutant of SysExit: the robust variant ends a successful run with the
\* failure code.
SysExitFailure(v) ==
    /\ v = "robust"
    /\ pc[v] = "end_main"
    /\ ExitWith(v, ExitFailure)

\* The robust variant's sys.exit(0): SystemExit is no Exception, so the
\* `except Exception` clause lets it pass.
SysExit(v) ==
    /\ v = "robust"
    /\ pc[v] = "end_main"
    /\ ExitWith(v, ExitSuccess)

\* The strict variant's main() returns and the script ends.
MainReturn(v) ==
    /\ v = "strict"
    /\ pc[v] = "end_main"
    /\ ExitWith(v, ExitSuccess)

\* The robust variant's failure handler: print(f"ERROR: {e}")
HandlerPrintError(v) ==
    PrintStep(v, "h_print_error", ErrorText(exc[v]), "h_traceback")

\* Mutant of HandlerTraceback: when the nonce is already bound the handler
\* goes on to print it, without reading the environment again.
HandlerTracebackSkipsRead(v) ==
    /\ pc[v] = "h_traceback"
    /\ Err(v, TracebackText(exc[v]))
    /\ Goto(v, IF nonce[v] # <<>> THEN "h_print_nonce" ELSE "h_env_get")
    /\ UNCHANGED <<entry, env, nonce, a, r, n, i, sequence, result, exc,
                   stdout, exit, envReads, faults>>

\* traceback.print_exc()
HandlerTraceback(v) ==
    /\ pc[v] = "h_traceback"
    /\ Err(v, TracebackText(exc[v]))
    /\ Goto(v, "h_env_get")
    /\ UNCHANGED <<entry, env, nonce, a, r, n, i, sequence, result, exc,
                   stdout, exit, envReads, faults>>

\* nonce = os.environ.get('TASK_NONCE', 'NO_NONCE_PROVIDED')
HandlerEnvGet(v) ==
    /\ pc[v] = "h_env_get"
    /\ nonce' = [nonce EXCEPT ![v] = EnvironGet(env, "TASK_NONCE", NoncePlaceholder)]
    /\ envReads' = [envReads EXCEPT ![v] = @ + 1]
    /\ Goto(v, "h_print_nonce")
    /\ UNCHANGED <<entry, env, a, r, n, i, sequence, result, exc, stdout,
                   stderr, exit, faults>>

\* print(f"NONCE: {nonce}")
HandlerPrintNonce(v) ==
    PrintStep(v, "h_print_nonce", NonceText(nonce[v]), "h_exit")

\* sys.exit(2)
HandlerExit(v) ==
    /\ pc[v] = "h_exit"
    /\ ExitWith(v, ExitFailure)

\* ------------------------------------------------------------ faults
\* The exception a statement raises when it fails: an environment access
\* that fails, a write to standard output that fails.
FaultOf(p) == IF p \in {"env_get", "h_env_get"} THEN "EnvironmentFault"
              ELSE "OutputFault"

\* os.environ.get was called, whether or not it raised.
CountRead(v) ==
    envReads' = [envReads EXCEPT ![v] =
                    IF pc[v] \in {"env_get", "h_env_get"} THEN @ + 1 ELSE @]

\* A statement of main()'s flow raises.
FlowFault(v) ==
    /\ pc[v] \in FlowSites
    /\ RaiseInMain(v, FaultOf(pc[v]))
    /\ Faulted(v)
    /\ CountRead(v)
    /\ UNCHANGED <<entry, env, nonce, a, r, n, i, sequence, result, stdout>>

\* A statement of the robust variant's failure handler raises: nothing
\* encloses the handler, so the exception leaves main().
HandlerFault(v) ==
    /\ pc[v] \in HandlerSites
    /\ Crash(v, FaultOf(pc[v]))
    /\ Faulted(v)
    /\ CountRead(v)
    /\ UNCHANGED <<entry, env, nonce, a, r, n, i, sequence, result, exc,
                   stdout>>

\* The term of this iteration raises during a run (a fault forced into the
\* computation).
ComputeFault(v) ==
    /\ pc[v] = "gen_loop"
    /\ i[v] < n[v].v
    /\ RaiseInGen(v, "ComputationFault")
    /\ Faulted(v)
    /\ UNCHANGED <<entry, env, nonce, a, r, n, i, sequence, result, stdout,
                   envReads>>

\* A statement of the robust generator's except clause raises: the
\* exception leaves the generator.
GenHandlerFault(v) ==
    /\ pc[v] \in GenHandlerSites
    /\ RaiseFromGen(v, "OutputFault")
    /\ Faulted(v)
    /\ UNCHANGED <<entry, env, nonce, a, r, n, i, sequence, result, stdout,
                   envReads>>

\* ------------------------------------------------------------ run
Next ==
    \E v \in Variants :
        \/ EnvGet(v)
        \/ PrintNonce(v)
        \/ PrintTitle(v)
        \/ PrintRule(v)
        \/ SetDefaults(v)
        \/ CallGen(v)
        \/ GenStep(v)
        \/ GenReturn(v)
        \/ GenHandlerPrint(v)
        \/ GenHandlerTraceback(v)
        \/ GenHandlerReturn(v)
        \/ PrintParams(v)
        \/ PrintSeq(v)
        \/ PrintOk(v)
        \/ SysExit(v)
        \/ MainReturn(v)
        \/ HandlerPrintError(v)
        \/ HandlerTraceback(v)
        \/ HandlerEnvGet(v)
        \/ HandlerPrintNonce(v)
        \/ HandlerExit(v)
        \/ FlowFault(v)
        \/ HandlerFault(v)
        \/ ComputeFault(v)
        \/ GenHandlerFault(v)

Spec == Init /\ [][Next]_vars

\* ------------------------------------------------------------ direct call
\* The arguments of a direct call: ints and floats of magnitude at most
\* MaxArg, a non-numeric ratio, and a term count up to MaxN.
ArgInts == {PyInt(k) : k \in -MaxArg..MaxArg}
ArgFloats == {PyFloat(k) : k \in -MaxArg..MaxArg}
ArgNumbers == ArgInts \cup ArgFloats

\* generate_geometric_sequence(a, r, n) is called with the same arguments
\* in both variants; `sequence = []` has run.
GenInit ==
    /\ entry = "call"
    /\ env = NoEnv
    /\ pc = [v \in Variants |-> "gen_loop"]
    /\ \E x \in ArgNumbers, y \in ArgNumbers \cup {PyStr}, z \in 0..MaxN :
          /\ a = [v \in Variants |-> x]
          /\ r = [v \in Variants |-> y]
          /\ n = [v \in Variants |-> PyInt(z)]
    /\ Common

GenNext ==
    \E v \in Variants :
        \/ GenStep(v)
        \/ GenReturn(v)
        \/ GenArithmeticRaise(v)
        \/ GenHandlerPrint(v)
        \/ GenHandlerTraceback(v)
        \/ GenHandlerReturn(v)

GenSpec == GenInit /\ [][GenNext]_vars

\* ------------------------------------------------------------ vocabulary
Done(v) == pc[v] = "done"
FaultFree(v) == faults[v] = <<>>
IsPrefix(s, t) == Len(s) <= Len(t) /\ SubSeq(t, 1, Len(s)) = s
HasLine(s, x) == \E k \in 1..Len(s) : s[k] = x
\* The lines of text t appear in s, one after the other.
HasText(s, t) == \E k \in 0..(Len(s) - Len(t)) : SubSeq(s, k + 1, k + Len(t)) = t
\* The value the nonce line must show in this environment.
ExpectedNonce ==
    IF "TASK_NONCE" \in DOMAIN env THEN env["TASK_NONCE"]
    ELSE <<"NO_NONCE_PROVIDED">>
ParamsLine == "Sequence with a=1, r=2, n=10:"
\* The mathematical a * r^k of two numbers.
Exact(x, y, k) == x.v * IntPow(y.v, k)
CallEnded(v) == pc[v] \in {"returned", "raised"}
IsNumber(x) == x.t \in {"int", "float"}

\* Element k of v's result is a * r^(k-1): exact for ints; for floats the
\* float of that value, an infinity standing for a value out of range.
IsTerm(v, k) ==
    LET x == result[v][k]
        m == Exact(a[v], r[v], k - 1)
    IN  /\ x.t = IF a[v].t = "int" /\ r[v].t = "int" THEN "int" ELSE "float"
        /\ IF x.t = "float" /\ Abs(m) > FloatMax
           THEN x.inf = Sign(m)
           ELSE x.inf = 0 /\ x.v = m

\* ------------------------------------------------------------ C1
\* C1 (as stated): for every non-negative integer n and all numbers a and
\* r, the call returns a sequence of length exactly n whose element i is
\* a * r^i, in both variants.
C1_AllNumbers ==
    \A v \in Variants :
        CallEnded(v) /\ IsNumber(r[v]) =>
            /\ pc[v] = "returned"
            /\ Len(result[v]) = n[v].v
            /\ \A k \in 1..Len(result[v]) : IsTerm(v, k)

\* C1 (amended): when the call has ended and no term raised, the result has
\* length exactly n and element i is Python's a * (r ** i): the exact
\* a * r^i for ints, the float product otherwise, which is an infinity when
\* it is out of the float range; no term raises for ints a and r, nor for
\* n = 0; when a term raises, the robust variant returns the empty sequence
\* and the strict variant raises.
C1_NoRaise ==
    \A v \in Variants :
        CallEnded(v) =>
            /\ (a[v].t = "int" /\ r[v].t = "int") \/ n[v].v = 0 => FaultFree(v)
            /\ FaultFree(v) =>
                  /\ pc[v] = "returned"
                  /\ Len(result[v]) = n[v].v
                  /\ \A k \in 1..Len(result[v]) : IsTerm(v, k)
            /\ ~FaultFree(v) =>
                  IF v = "robust" THEN pc[v] = "returned" /\ result[v] = <<>>
                  ELSE pc[v] = "raised"

\* A call with integer arguments and at least two terms has returned them.
C1_Witness ==
    \E v \in Variants :
        /\ pc[v] = "returned"
        /\ a[v] = PyInt(3) /\ r[v] = PyInt(2) /\ n[v].v >= 2
        /\ Len(result[v]) = n[v].v
        /\ result[v][2] = PyInt(6)

\* ------------------------------------------------------------ C2
\* The standard output of a fault-free default run.
DefaultOutput ==
    NonceText(ExpectedNonce) \o
    << "Geometric Number Sequence Generator",
       "-----------------------------------",
       ParamsLine,
       "[1, 2, 4, 8, 16, 32, 64, 128, 256, 512]",
       "",
       "Execution successful!" >>

\* C2: a fault-free default run of either variant writes the NONCE line,
\* the title, the dashed rule, the parameter line, the sequence
\* [1, 2, 4, ..., 512], a blank line and 'Execution successful!', in this
\* order and with nothing in between, and then ends with exit code 0.
C2_DefaultRun ==
    \A v \in Variants :
        FaultFree(v) =>
            /\ IsPrefix(stdout[v], DefaultOutput)
            /\ exit[v] # <<>> => stdout[v] = DefaultOutput
            /\ Done(v) => exit[v] = <<0>>

\* Both variants have ended a fault-free run.
C2_Witness ==
    \A v \in Variants :
        Done(v) /\ FaultFree(v) /\ Len(stdout[v]) >= 7 /\ exit[v] = <<0>>

\* ------------------------------------------------------------ C3
\* C3 (as stated): in every run of either variant the first line of output
\* is exactly 'NONCE: <v>', <v> being TASK_NONCE's value when it is set
\* and NO_NONCE_PROVIDED when it is not.
C3_EveryRun ==
    \A v \in Variants :
        /\ stdout[v] # <<>> =>
              <<stdout[v][1]>> = Concat(Line("NONCE: "), ExpectedNonce)
        /\ Done(v) => stdout[v] # <<>>

\* C3 (amended): when neither the environment read nor the print of the
\* nonce raised, the output begins with 'NONCE: <v>', which is exactly the
\* first line when <v> holds no line break; when one of the two raised, the
\* strict variant has written nothing and the robust variant's first line
\* is its 'ERROR: ...' line.
C3_FirstLine ==
    \A v \in Variants :
        LET early == faults[v] # <<>> /\ faults[v][1] \in {"env_get", "print_nonce"}
        IN  /\ stdout[v] # <<>> /\ ~early =>
                  /\ IsPrefix(Concat(Line("NONCE: "), ExpectedNonce), stdout[v])
                  /\ Len(ExpectedNonce) = 1 =>
                        stdout[v][1] = "NONCE: " \o ExpectedNonce[1]
            /\ stdout[v] # <<>> /\ early =>
                  /\ v = "robust"
                  /\ stdout[v][1] \in {"ERROR: EnvironmentFault", "ERROR: OutputFault"}
            /\ Done(v) /\ ~early => stdout[v] # <<>>

\* TASK_NONCE=abc123 and a variant has printed its first line.
C3_Witness ==
    \E v \in Variants :
        /\ env = EnvWith(Line("abc123"))
        /\ FaultFree(v)
        /\ stdout[v] # <<>>
        /\ stdout[v][1] = "NONCE: abc123"

\* ------------------------------------------------------------ C4
\* The standard output of a robust run whose only fault is a term that
\* raised.
ComputeFaultOutput ==
    NonceText(ExpectedNonce) \o
    << "Geometric Number Sequence Generator",
       "-----------------------------------",
       "Error generating sequence: ComputationFault",
       ParamsLine,
       "[]",
       "",
       "Execution successful!" >>

\* C4: in the robust variant a computation fault raised at any term (and
\* nothing else failing) makes the generator return the empty sequence,
\* whatever was appended before; the run goes on, prints the empty sequence
\* and 'Execution successful!' and ends with exit code 0, never with exit
\* code 2 and never with an unhandled fault.
C4_ComputeFault ==
    faults["robust"] = <<"gen_loop">> =>
        /\ pc["robust"] \in {"gen_h_print", "gen_h_traceback", "gen_h_return",
                             "print_params", "print_seq", "print_ok",
                             "end_main", "done"}
        /\ pc["robust"] \in {"print_params", "print_seq", "print_ok",
                             "end_main", "done"} => result["robust"] = <<>>
        /\ IsPrefix(stdout["robust"], ComputeFaultOutput)
        /\ exit["robust"] \in {<<>>, <<0>>}
        /\ Done("robust") =>
              stdout["robust"] = ComputeFaultOutput /\ exit["robust"] = <<0>>

\* The robust run has ended after its sixth term raised, five terms having
\* been appended before.
C4_Witness ==
    /\ Done("robust")
    /\ faults["robust"] = <<"gen_loop">>
    /\ i["robust"] = 5
    /\ Len(sequence["robust"]) = 5
    /\ result["robust"] = <<>>
    /\ HasLine(stdout["robust"], "[]")

\* ------------------------------------------------------------ C5
\* A statement outside the generator's loop has failed in v's run.
FailedOutside(v) == \E k \in 1..Len(faults[v]) : faults[v][k] # "gen_loop"

\* C5: in the robust variant a failure outside the generator, at any step
\* of the run, always ends the process with exit code 2: no failure ends
\* the run with another exit code or as an unhandled fault.
C5_AlwaysExit2 ==
    Done("robust") /\ FailedOutside("robust") => exit["robust"] = <<2>>

\* ------------------------------------------------------------ C6
\* C6: in the robust variant, whenever a run fails outside the generator,
\* a 'NONCE: <value>' line still appears in the output of that run before
\* the process terminates.
C6_NonceStillPrinted ==
    Done("robust") /\ FailedOutside("robust") =>
        HasText(stdout["robust"], Concat(Line("NONCE: "), ExpectedNonce))

\* ------------------------------------------------------------ C7
\* C7: the strict variant has no failure path: a run ends with exit code 0
\* having printed 'Execution successful!', or the fault escapes unhandled;
\* it never ends with exit code 2, never prints an empty sequence in place
\* of a failed computation, and never prints 'Execution successful!' after
\* a fault.
C7_StrictPropagates ==
    /\ exit["strict"] \in {<<>>, <<0>>, <<1>>}
    /\ ~HasLine(stdout["strict"], "[]")
    /\ exit["strict"] = <<0>> =>
          /\ FaultFree("strict")
          /\ stdout["strict"][Len(stdout["strict"])] = "Execution successful!"
    /\ ~FaultFree("strict") =>
          /\ Done("strict")
          /\ exit["strict"] = <<1>>
          /\ Len(faults["strict"]) = 1
          /\ ~HasLine(stdout["strict"], "Execution successful!")
          /\ stderr["strict"] # <<>>

\* The strict run has ended unhandled on a term that raised.
C7_Witness ==
    /\ Done("strict")
    /\ faults["strict"] = <<"gen_loop">>
    /\ exit["strict"] = <<1>>
    /\ i["strict"] = 3

\* ------------------------------------------------------------ C8
GeneratorPcs == {"gen_loop", "gen_h_print", "gen_h_traceback", "gen_h_return"}

\* C8 (as stated): the Runner prints the parameter line before it invokes
\* the generator, so no output of the generation precedes that line.
C8_ParamsBeforeGenerator ==
    \A v \in Variants :
        /\ pc[v] \in GeneratorPcs => HasLine(stdout[v], ParamsLine)
        /\ \A j, k \in 1..Len(stdout[v]) :
              /\ stdout[v][k] = ParamsLine
              /\ stdout[v][j] = "Error generating sequence: ComputationFault"
              => k < j

\* C8 (amended): the Runner invokes the generator before it prints the
\* parameter line: the line is never in the output while the generator
\* runs or before it is called, and the robust variant's 'Error generating
\* sequence' diagnostic precedes it.
C8_GeneratorBeforeParams ==
    \A v \in Variants :
        /\ pc[v] \in GeneratorPcs \cup
                     {"env_get", "print_nonce", "print_title", "print_rule",
                      "set_defaults", "call_gen", "print_params"}
              => ~HasLine(stdout[v], ParamsLine)
        /\ \A j, k \in 1..Len(stdout[v]) :
              /\ stdout[v][k] = ParamsLine
              /\ stdout[v][j] = "Error generating sequence: ComputationFault"
              => j < k

\* The robust variant has printed the diagnostic and then the parameter
\* line.
C8_Witness ==
    /\ HasLine(stdout["robust"], "Error generating sequence: ComputationFault")
    /\ HasLine(stdout["robust"], ParamsLine)
    /\ pc["robust"] = "print_seq"

\* ------------------------------------------------------------ C9
\* C9 (as stated): on the success path and on every failure path of either
\* variant the nonce is read from the environment exactly once.
C9_ReadOnce == \A v \in Variants : Done(v) => envReads[v] = 1

\* C9 (amended): the nonce is read exactly once in every run of the strict
\* variant and in every run of the robust variant that ends with exit code
\* 0; a robust run that ends with exit code 2 has read it a second time, in
\* its failure handler; no run reads it more than twice.
C9_ReadAgainInHandler ==
    \A v \in Variants :
        /\ envReads[v] <= 2
        /\ Done(v) =>
              /\ envReads[v] >= 1
              /\ v = "strict" \/ exit[v] = <<0>> => envReads[v] = 1
              /\ exit[v] = <<2>> => envReads[v] = 2

\* A robust run has ended with exit code 2 after a print of its flow failed.
C9_Witness ==
    /\ Done("robust")
    /\ exit["robust"] = <<2>>
    /\ faults["robust"] = <<"print_title">>
    /\ envReads["robust"] = 2

\* ------------------------------------------------------------ C10
\* C10: on runs in which no fault occurs the two variants are
\* observationally equivalent: in the same environment they write the same
\* lines to standard output and end with the same exit code, 0.
C10_Equivalent ==
    FaultFree("strict") /\ FaultFree("robust") =>
        /\ pc["strict"] = pc["robust"] =>
              /\ stdout["strict"] = stdout["robust"]
              /\ exit["strict"] = exit["robust"]
        /\ Done("strict") /\ Done("robust") =>
              /\ stdout["strict"] = stdout["robust"]
              /\ exit["strict"] = <<0>> /\ exit["robust"] = <<0>>

\* Both variants have ended a fault-free run in an environment that sets
\* TASK_NONCE.
C10_Witness ==
    /\ Done("strict") /\ Done("robust")
    /\ FaultFree("strict") /\ FaultFree("robust")
    /\ "TASK_NONCE" \in DOMAIN env
    /\ Len(stdout["robust"]) >= 7
====
